---- MODULE Spec2Model ----
(***************************************************************************)
(* Hunt lifecycle of flows/hunts.go: CreateHunt, ModifyHunt, GetHunt and   *)
(* ListHunts over the durable hunt store and the hunt dispatcher's         *)
(* in-memory mirror.                                                       *)
(*                                                                         *)
(* Time is counted in abstract units (one unit stands for a day, so the    *)
(* default expiry of 7*24 hours is 7 units); 0 is the zero timestamp.      *)
(***************************************************************************)
EXTENDS Integers, Sequences, FiniteSets, TLC

\* ------------------------------------------------------------------ bounds
\* The clock runs from 1 to MaxTime.
MaxTime == 2
\* ListHunts is asked for offsets and counts in 0..MaxCount.
MaxCount == 2

\* ------------------------------------------------------- program constants
SevenDays == 7

Hunt_UNSET == "UNSET"
Hunt_PAUSED == "PAUSED"
Hunt_RUNNING == "RUNNING"
Hunt_STOPPED == "STOPPED"
Hunt_ARCHIVED == "ARCHIVED"
HuntState == {Hunt_UNSET, Hunt_PAUSED, Hunt_RUNNING, Hunt_STOPPED, Hunt_ARCHIVED}

\* Error values.  NoError is Go's nil error; notModified and STOP_ITERATION
\* are the two control sentinels.
NoError == "nil"
notModified == "notModified"
STOP_ITERATION == "STOP_ITERATION"
\* A call on a nil interface value does not return: the goroutine panics.
Panic == "panic"

\* ------------------------------------------------------------------ values
\* The ids GetNewHuntId can draw and callers can name.
HuntIds == {"H.1", "H.2", "H.3"}

\* Go's nil pointers: no hunt, no Stats, no StartRequest.
NoHunt == [nil |-> TRUE]
NoStats == [nil |-> TRUE]
NoRequest == [nil |-> TRUE]

\* A Go slice is nil or holds elements; len() of both nil and empty is 0.
NilSlice == [nil |-> TRUE, elems |-> <<>>]
Slice(s) == [nil |-> FALSE, elems |-> s]

\* The artifact repository: the sources each known artifact declares.
ArtifactNames == {"A"}
RepositorySources == [a \in ArtifactNames |-> <<"s1">>]

VARIABLES
    store,          \* the datastore: hunt id -> hunt record (or NoHunt)
    mirror,         \* the dispatcher's in-memory hunts: hunt id -> hunt
    dispatcherUp,   \* services.GetHuntDispatcher() is not nil
    now,            \* the wall clock
    last,           \* the call made in the latest step: what was asked, what
                    \* it returned and what it found; NoCall after any other step
    task,           \* concurrent callers of the dispatcher: where each one is
    mutex,          \* the dispatcher's lock: the task holding it, or 0
    wmi             \* one call of the wmi_events plugin: its worker goroutine,
                    \* its event queue, its context and its consumer

vars == <<store, mirror, dispatcherUp, now, last, task, mutex, wmi>>
\* What the hunt operations of flows/hunts.go never touch.
conc == <<task, mutex, wmi>>
\* What the wmi_events plugin never touches.
hunts == <<store, mirror, dispatcherUp, now, last, task, mutex>>

\* ----------------------------------------------------------------- helpers
RECURSIVE Flatten(_)
Flatten(ss) == IF ss = <<>> THEN <<>> ELSE Head(ss) \o Flatten(Tail(ss))

\* GetArtifactSources: the source names of one artifact; empty for an
\* artifact the repository does not know.
GetArtifactSources(artifact) ==
    IF artifact \in DOMAIN RepositorySources THEN RepositorySources[artifact] ELSE <<>>

\* path.Join(artifact, source) for every source of every artifact, in order.
JoinedSources(artifacts) ==
    Flatten([i \in 1..Len(artifacts) |->
        [j \in 1..Len(GetArtifactSources(artifacts[i])) |->
            <<artifacts[i], GetArtifactSources(artifacts[i])[j]>>]])

\* launcher.CompileCollectorArgs: the compiled form of a request (opaque).
CompileCollectorArgs(request) == <<[compiled |-> request.Artifacts.elems]>>

\* What a call leaves behind: the request, the id, error, hunt and items it
\* returned, the audit rows it pushed to the journal, and the datastore and
\* the mirror as they were when it was made.
Returned(op, req, id, err, hunt, items, rows) ==
    [op |-> op, req |-> req, id |-> id, err |-> err, hunt |-> hunt,
     items |-> items, rows |-> rows,
     was |-> [store |-> store, mirror |-> mirror]]

NoCall ==
    [op |-> "none", req |-> [nil |-> TRUE], id |-> "", err |-> NoError,
     hunt |-> NoHunt, items |-> <<>>, rows |-> 0, was |-> [nil |-> TRUE]]

\* Concurrent callers.
NumTasks == 3
Tasks == 1..NumTasks
IdleTask == [pc |-> "idle", kind |-> "none", copy |-> NoHunt]

\* WmiEventPlugin.Call has just returned output_chan and started its worker.
\* pc is where the worker is, queue the number of events in
\* event_context.output, watcher the native watcher of watchEvents, closed
\* whether output_chan is closed, ctx what sub_ctx.Done() stands at,
\* consumer whether the caller still receives from output_chan, event what
\* ProcessEvent did with the latest event and seen how many events it found
\* in the queue then.
NewPlugin ==
    [pc |-> "start", queue |-> 0, watcher |-> "none", closed |-> FALSE,
     ctx |-> "live", consumer |-> "reading", event |-> "none", seen |-> 0]

\* ------------------------------------------------------------------- Init
Init ==
    /\ store = [id \in HuntIds |-> NoHunt]
    /\ mirror = [id \in HuntIds |-> NoHunt]
    /\ dispatcherUp = FALSE
    /\ now = 1
    /\ last = NoCall
    /\ task = [t \in Tasks |-> IdleTask]
    /\ mutex = 0
    /\ wmi = NewPlugin

\* ------------------------------------------------------------- dispatcher
\* HuntDispatcher.Refresh: the mirror is rebuilt from the datastore and
\* published whole.
Refresh(datastore) == datastore

\* HuntDispatcher.ModifyHunt(hunt_id, cb): an unknown id is a not-found error;
\* otherwise cb runs on a private copy of the mirror's hunt, and only when cb
\* returns nil is the copy committed to the mirror and to the datastore.  Any
\* other value cb returns (the notModified sentinel included) is handed to the
\* caller and nothing is committed.  `arg` is the copy cb was given.  A
\* callback is a function of the hunts it can be handed, Found(hunt_id).
Found(hunt_id) == {mirror[hunt_id]} \ {NoHunt}

DispatcherModifyHunt(hunt_id, cb) ==
    IF mirror[hunt_id] = NoHunt
    THEN [err |-> "NotFound", arg |-> NoHunt, rows |-> 0,
          mirror |-> mirror, store |-> store]
    ELSE LET r == cb[mirror[hunt_id]] IN
         IF r.err = NoError
         THEN [err |-> NoError, arg |-> mirror[hunt_id], rows |-> r.rows,
               mirror |-> [mirror EXCEPT ![hunt_id] = r.hunt],
               store |-> [store EXCEPT ![hunt_id] = r.hunt]]
         ELSE [err |-> r.err, arg |-> mirror[hunt_id], rows |-> r.rows,
               mirror |-> mirror, store |-> store]

\* The services start the hunt dispatcher, which loads its mirror.
StartHuntDispatcher ==
    /\ ~dispatcherUp
    /\ dispatcherUp' = TRUE
    /\ mirror' = Refresh(store)
    /\ last' = NoCall
    /\ UNCHANGED <<store, now, conc>>

\* The dispatcher's periodic refresh.
PeriodicRefresh ==
    /\ dispatcherUp
    /\ mirror' = Refresh(store)
    /\ last' = NoCall
    /\ UNCHANGED <<store, dispatcherUp, now, conc>>

\* ------------------------------------------------------------- CreateHunt
ZeroStats == [Stopped |-> FALSE, TotalClientsScheduled |-> 0]

\* What callers pass to CreateHunt.
ExpiresInputs == {0, 1}
StatsInputs == {NoStats, [ZeroStats EXCEPT !.Stopped = TRUE]}
ARequest == [Artifacts |-> Slice(<<"A">>), CompiledCollectorArgs |-> <<>>]
InvalidRequests ==
    {NoRequest, [Artifacts |-> NilSlice, CompiledCollectorArgs |-> <<>>]}
\* A request whose artifact list is present but holds no name, and one
\* that comes with compiled args already in it.
EmptyRequest == [Artifacts |-> Slice(<<>>), CompiledCollectorArgs |-> <<>>]
PrecompiledRequest ==
    [Artifacts |-> Slice(<<"A">>),
     CompiledCollectorArgs |-> <<[compiled |-> <<"old">>]>>]

\* A CreateHunt that stores the request as it was given, without the
\* compiler's output.
BuiltHunt_Uncompiled(hunt, hunt_id, later) ==
    [HuntId |-> hunt_id,
     State |-> IF hunt.State = Hunt_UNSET THEN Hunt_PAUSED ELSE hunt.State,
     CreateTime |-> now,
     StartTime |-> IF hunt.State = Hunt_RUNNING THEN now ELSE 0,
     Expires |-> IF hunt.Expires = 0 THEN later + SevenDays ELSE hunt.Expires,
     HuntDescription |-> "",
     Stats |-> IF hunt.Stats = NoStats THEN ZeroStats ELSE hunt.Stats,
     StartRequest |-> hunt.StartRequest,
     Artifacts |-> hunt.StartRequest.Artifacts,
     ArtifactSources |-> JoinedSources(hunt.StartRequest.Artifacts.elems)]

\* The hunt CreateHunt has built when it reaches db.SetSubject: `later` is
\* the second reading of the clock, taken when Expires is defaulted.
BuiltHunt(hunt, hunt_id, later) ==
    [HuntId |-> hunt_id,
     State |-> IF hunt.State = Hunt_UNSET THEN Hunt_PAUSED ELSE hunt.State,
     CreateTime |-> now,
     StartTime |-> IF hunt.State = Hunt_RUNNING THEN now ELSE 0,
     Expires |-> IF hunt.Expires = 0 THEN later + SevenDays ELSE hunt.Expires,
     HuntDescription |-> "",
     Stats |-> IF hunt.Stats = NoStats THEN ZeroStats ELSE hunt.Stats,
     StartRequest |->
        [hunt.StartRequest EXCEPT !.CompiledCollectorArgs =
            @ \o CompileCollectorArgs(hunt.StartRequest)],
     Artifacts |-> hunt.StartRequest.Artifacts,
     ArtifactSources |-> JoinedSources(hunt.StartRequest.Artifacts.elems)]

\* A CreateHunt that does not compare Expires with CreateTime.
CreateRejects_AnyExpiry(hunt, fault, notifier, later) ==
    IF fault = "db" THEN "NoDatastore"
    ELSE IF hunt.StartRequest = NoRequest \/ hunt.StartRequest.Artifacts.nil
    THEN "NoArtifacts"
    ELSE IF fault = "manager" THEN "NoRepositoryManager"
    ELSE IF fault = "repository" THEN "NoRepository"
    ELSE IF fault = "launcher" THEN "NoLauncher"
    ELSE IF fault = "compile" THEN "CompileFailed"
    ELSE IF hunt.State = Hunt_RUNNING /\ notifier # "nil" /\ fault = "notify"
    THEN "NotifyFailed"
    ELSE NoError

\* The error CreateHunt returns before it writes, or NoError.
CreateRejects(hunt, fault, notifier, later) ==
    IF fault = "db" THEN "NoDatastore"
    ELSE IF hunt.StartRequest = NoRequest \/ hunt.StartRequest.Artifacts.nil
    THEN "NoArtifacts"
    ELSE IF (IF hunt.Expires = 0 THEN later + SevenDays ELSE hunt.Expires) < now
    THEN "ExpiryInPast"
    ELSE IF fault = "manager" THEN "NoRepositoryManager"
    ELSE IF fault = "repository" THEN "NoRepository"
    ELSE IF fault = "launcher" THEN "NoLauncher"
    ELSE IF fault = "compile" THEN "CompileFailed"
    ELSE IF hunt.State = Hunt_RUNNING /\ notifier # "nil" /\ fault = "notify"
    THEN "NotifyFailed"
    ELSE NoError

\* A call of CreateHunt: the hunt passed, the dependency that fails and the
\* notifier service ("nil" when none is registered).  Calls that differ only
\* in what CreateHunt never reads before it returns are one call, the one
\* with the zero value there.  `ids` are the ids callers pass ("" for none),
\* `requests` their well-formed requests, `stats` their Stats and `late` the
\* failures ("none" for none) of db.SetSubject and of the refresh.
CreateCalls(ids, requests, stats, late) ==
    LET Zero(e, r) ==
            [HuntId |-> "", State |-> Hunt_UNSET, Expires |-> e,
             StartRequest |-> r, Stats |-> NoStats]
        Hunts(states) ==
            [HuntId : ids, State : states, Expires : ExpiresInputs,
             StartRequest : requests, Stats : stats]
    IN
    {[hunt |-> Zero(0, NoRequest), fault |-> "db", notifier |-> "ok"]}
    \cup {[hunt |-> Zero(0, r), fault |-> "none", notifier |-> "ok"] :
            r \in InvalidRequests}
    \cup {[hunt |-> Zero(e, r), fault |-> f, notifier |-> "ok"] :
            e \in ExpiresInputs, r \in requests,
            f \in {"manager", "repository", "launcher", "compile"}}
    \cup [hunt : Hunts(HuntState), fault : late, notifier : {"ok"}]
    \cup [hunt : Hunts({Hunt_RUNNING}), fault : late, notifier : {"nil"}]
    \cup [hunt : Hunts({Hunt_RUNNING}), fault : {"notify"}, notifier : {"ok"}]

\* A CreateHunt that writes the hunt before it notifies the clients.
Written_BeforeNotify(rejected, fault) ==
    rejected \in {NoError, "NotifyFailed"} /\ fault # "set"

\* db.SetSubject is reached, and writes, when nothing before it returned.
Written(rejected, fault) == rejected = NoError /\ fault # "set"

\* A CreateHunt that does not refresh the dispatcher.
RefreshAfterCreate_Skipped(stored, fault) == mirror

\* The mirror after GetHuntDispatcher().Refresh(): reloaded from the
\* datastore unless there is no dispatcher or the refresh fails.
RefreshAfterCreate(stored, fault) ==
    IF dispatcherUp /\ fault # "refresh" THEN Refresh(stored) ELSE mirror

\* A CreateHunt that writes the hunt and refreshes before it notifies.
CreateEffects_WriteFirst(hunt, fault, notifier, later) ==
    LET rejected == CreateRejects(hunt, fault, notifier, later)
        written == Written(rejected, fault)
    IN
    (IF written THEN <<"write">> ELSE <<>>)
    \o (IF written /\ dispatcherUp /\ fault # "refresh"
        THEN <<"refresh">> ELSE <<>>)
    \o (IF rejected = NoError /\ hunt.State = Hunt_RUNNING /\ notifier # "nil"
        THEN <<"notify">> ELSE <<>>)

\* What a call of CreateHunt does to the services, in the order it does it:
\* "notify" for a NotifyByRegex that went through, "write" for a
\* db.SetSubject that did and "refresh" for the dispatcher's Refresh.
CreateEffects(hunt, fault, notifier, later) ==
    LET rejected == CreateRejects(hunt, fault, notifier, later)
        written == Written(rejected, fault)
    IN
    (IF rejected = NoError /\ hunt.State = Hunt_RUNNING /\ notifier # "nil"
     THEN <<"notify">> ELSE <<>>)
    \o (IF written THEN <<"write">> ELSE <<>>)
    \o (IF written /\ dispatcherUp /\ fault # "refresh"
        THEN <<"refresh">> ELSE <<>>)

\* A returned call together with its effects.
WithEffects(r, effects) ==
    [op |-> r.op, req |-> r.req, id |-> r.id, err |-> r.err, hunt |-> r.hunt,
     items |-> r.items, rows |-> r.rows, was |-> r.was, effects |-> effects]

\* What is kept of the request of a call that wrote nothing.
Asked(hunt) == [Expires |-> hunt.Expires, StartRequest |-> hunt.StartRequest]

CreateHunt(hunt, new_id, fault, notifier, later) ==
    LET hunt_id == IF hunt.HuntId = "" THEN new_id ELSE hunt.HuntId
        readsClockTwice ==
            /\ fault # "db"
            /\ hunt.StartRequest # NoRequest /\ ~hunt.StartRequest.Artifacts.nil
            /\ hunt.Expires = 0
        rejected == CreateRejects(hunt, fault, notifier, later)
        written == Written(rejected, fault)
        stored == [store EXCEPT ![hunt_id] = BuiltHunt(hunt, hunt_id, later)]
    IN
    /\ later <= MaxTime
    /\ (later # now => readsClockTwice)
    /\ (hunt.HuntId # "" => new_id = hunt.HuntId)
    /\ now' = later
    /\ store' = IF written THEN stored ELSE store
    /\ mirror' = IF written THEN RefreshAfterCreate(stored, fault) ELSE mirror
    /\ last' = WithEffects(
        IF rejected # NoError
        THEN Returned("CreateHunt", Asked(hunt), "", rejected, NoHunt, <<>>, 0)
        ELSE IF fault = "set"
        THEN Returned("CreateHunt", Asked(hunt), "", "SetSubjectFailed", NoHunt, <<>>, 0)
        ELSE IF ~dispatcherUp
        THEN Returned("CreateHunt", hunt, "", Panic, NoHunt, <<>>, 0)
        ELSE IF fault = "refresh"
        THEN Returned("CreateHunt", hunt, hunt_id, "RefreshFailed", NoHunt, <<>>, 0)
        ELSE Returned("CreateHunt", hunt, hunt_id, NoError, NoHunt, <<>>, 0),
        CreateEffects(hunt, fault, notifier, later))
    /\ UNCHANGED <<dispatcherUp, conc>>

\* ------------------------------------------------------------- ModifyHunt
\* A mutator that starts a hunt without looking at Stats.Stopped.
HuntMutator_StartsStopped(hunt, hunt_modification, journal, t) ==
    IF hunt.Stats = NoStats
    THEN [err |-> "InvalidHunt", hunt |-> hunt, rows |-> 0]
    ELSE IF hunt_modification.HuntDescription # ""
    THEN [err |-> NoError, rows |-> 0,
          hunt |-> [hunt EXCEPT !.HuntDescription = hunt_modification.HuntDescription]]
    ELSE IF hunt_modification.State = Hunt_ARCHIVED
    THEN LET archived == [hunt EXCEPT !.State = Hunt_ARCHIVED] IN
         IF journal = "unavailable"
         THEN [err |-> "NoJournal", hunt |-> archived, rows |-> 0]
         ELSE IF journal = "fail"
         THEN [err |-> "PushRowsFailed", hunt |-> archived, rows |-> 0]
         ELSE [err |-> NoError, hunt |-> archived, rows |-> 1]
    ELSE IF hunt_modification.State = Hunt_RUNNING
    THEN [err |-> NoError, rows |-> 0,
          hunt |-> [hunt EXCEPT !.State = Hunt_RUNNING, !.StartTime = t]]
    ELSE [err |-> NoError, rows |-> 0,
          hunt |-> [hunt EXCEPT !.State = Hunt_STOPPED]]

\* A mutator that edits the description and goes on to the requested state.
HuntMutator_DescribesAndMoves(hunt, hunt_modification, journal, t) ==
    LET described ==
            IF hunt_modification.HuntDescription # ""
            THEN [hunt EXCEPT !.HuntDescription = hunt_modification.HuntDescription]
            ELSE hunt
    IN
    IF hunt.Stats = NoStats
    THEN [err |-> "InvalidHunt", hunt |-> hunt, rows |-> 0]
    ELSE IF hunt_modification.State = Hunt_ARCHIVED
    THEN LET archived == [described EXCEPT !.State = Hunt_ARCHIVED] IN
         IF journal = "unavailable"
         THEN [err |-> "NoJournal", hunt |-> archived, rows |-> 0]
         ELSE IF journal = "fail"
         THEN [err |-> "PushRowsFailed", hunt |-> archived, rows |-> 0]
         ELSE [err |-> NoError, hunt |-> archived, rows |-> 1]
    ELSE IF hunt_modification.State = Hunt_RUNNING
    THEN IF hunt.Stats.Stopped
         THEN [err |-> "StoppedHunt", hunt |-> hunt, rows |-> 0]
         ELSE [err |-> NoError, rows |-> 0,
               hunt |-> [described EXCEPT !.State = Hunt_RUNNING, !.StartTime = t]]
    ELSE [err |-> NoError, rows |-> 0,
          hunt |-> [described EXCEPT !.State = Hunt_STOPPED]]

\* A mutator that archives without a row in the journal.
HuntMutator_ArchivesUnaudited(hunt, hunt_modification, journal, t) ==
    IF hunt.Stats = NoStats
    THEN [err |-> "InvalidHunt", hunt |-> hunt, rows |-> 0]
    ELSE IF hunt_modification.HuntDescription # ""
    THEN [err |-> NoError, rows |-> 0,
          hunt |-> [hunt EXCEPT !.HuntDescription = hunt_modification.HuntDescription]]
    ELSE IF hunt_modification.State = Hunt_ARCHIVED
    THEN [err |-> NoError, rows |-> 0,
          hunt |-> [hunt EXCEPT !.State = Hunt_ARCHIVED]]
    ELSE IF hunt_modification.State = Hunt_RUNNING
    THEN IF hunt.Stats.Stopped
         THEN [err |-> "StoppedHunt", hunt |-> hunt, rows |-> 0]
         ELSE [err |-> NoError, rows |-> 0,
               hunt |-> [hunt EXCEPT !.State = Hunt_RUNNING, !.StartTime = t]]
    ELSE [err |-> NoError, rows |-> 0,
          hunt |-> [hunt EXCEPT !.State = Hunt_STOPPED]]

\* The callback ModifyHunt hands to the dispatcher.  It works on `hunt` in
\* place, so the hunt it leaves behind is returned with its error: `journal`
\* is what the journal service does with the audit row, `rows` the number of
\* rows it took.
HuntMutator(hunt, hunt_modification, journal, t) ==
    IF hunt.Stats = NoStats
    THEN [err |-> "InvalidHunt", hunt |-> hunt, rows |-> 0]
    ELSE IF hunt_modification.HuntDescription # ""
    THEN [err |-> NoError, rows |-> 0,
          hunt |-> [hunt EXCEPT !.HuntDescription = hunt_modification.HuntDescription]]
    ELSE IF hunt_modification.State = Hunt_ARCHIVED
    THEN LET archived == [hunt EXCEPT !.State = Hunt_ARCHIVED] IN
         IF journal = "unavailable"
         THEN [err |-> "NoJournal", hunt |-> archived, rows |-> 0]
         ELSE IF journal = "fail"
         THEN [err |-> "PushRowsFailed", hunt |-> archived, rows |-> 0]
         ELSE [err |-> NoError, hunt |-> archived, rows |-> 1]
    ELSE IF hunt_modification.State = Hunt_RUNNING
    THEN IF hunt.Stats.Stopped
         THEN [err |-> "StoppedHunt", hunt |-> hunt, rows |-> 0]
         ELSE [err |-> NoError, rows |-> 0,
               hunt |-> [hunt EXCEPT !.State = Hunt_RUNNING, !.StartTime = t]]
    ELSE [err |-> NoError, rows |-> 0,
          hunt |-> [hunt EXCEPT !.State = Hunt_STOPPED]]

ModifyInputs(ids) ==
    [HuntId : ids, State : HuntState, HuntDescription : {"", "d"}]

\* A call of ModifyHunt: the modification asked for, what the journal does
\* with an audit row and what the notifier does ("nil": none is registered).
\* The journal is reached only by a request to archive that carries no
\* description, and the notifier only when the journal took the row.
ModifyCalls(ids) ==
    [hunt_modification : ModifyInputs(ids), journal : {"ok"},
     notifier : {"nil", "ok", "fail"}]
    \cup [hunt_modification :
            [HuntId : ids, State : {Hunt_ARCHIVED}, HuntDescription : {""}],
          journal : {"unavailable", "fail"}, notifier : {"ok"}]

\* A ModifyHunt that asks for the notifier before it calls the dispatcher.
ModifyHunt_NotifierFirst(hunt_modification, journal, notifier) ==
    LET cb == [hunt \in Found(hunt_modification.HuntId) |->
                    HuntMutator(hunt, hunt_modification, journal, now)]
        r == DispatcherModifyHunt(hunt_modification.HuntId, cb)
    IN
    IF ~dispatcherUp
    THEN /\ last' = Returned("ModifyHunt", hunt_modification, "", Panic,
                             NoHunt, <<>>, 0)
         /\ UNCHANGED <<store, mirror, dispatcherUp, now, conc>>
    ELSE IF notifier # "ok"
    THEN /\ last' = Returned("ModifyHunt", hunt_modification, "",
                             IF notifier = "nil" THEN "NotifierNotReady"
                                                 ELSE "NotifyFailed",
                             NoHunt, <<>>, 0)
         /\ UNCHANGED <<store, mirror, dispatcherUp, now, conc>>
    ELSE /\ mirror' = r.mirror
         /\ store' = r.store
         /\ last' = Returned("ModifyHunt", hunt_modification, "", r.err,
                             NoHunt, <<>>, r.rows)
         /\ UNCHANGED <<dispatcherUp, now, conc>>

ModifyHunt(hunt_modification, journal, notifier) ==
    LET cb == [hunt \in Found(hunt_modification.HuntId) |->
                    HuntMutator(hunt, hunt_modification, journal, now)]
        r == DispatcherModifyHunt(hunt_modification.HuntId, cb)
        err == IF r.err # NoError THEN r.err
               ELSE IF notifier = "nil" THEN "NotifierNotReady"
               ELSE IF notifier = "fail" THEN "NotifyFailed"
               ELSE NoError
    IN
    IF ~dispatcherUp
    THEN /\ last' = Returned("ModifyHunt", hunt_modification, "", Panic,
                             NoHunt, <<>>, 0)
         /\ UNCHANGED <<store, mirror, dispatcherUp, now, conc>>
    ELSE /\ mirror' = r.mirror
         /\ store' = r.store
         /\ last' = Returned("ModifyHunt", hunt_modification, "", err,
                             NoHunt, <<>>, r.rows)
         /\ UNCHANGED <<dispatcherUp, now, conc>>

\* ---------------------------------------------------------------- GetHunt
\* Backwards compatibility: a hunt without an artifacts list gets it from
\* its request.
FindCollectedArtifacts(hunt) ==
    IF hunt = NoHunt THEN hunt
    ELSE IF hunt.StartRequest = NoRequest \/ hunt.StartRequest.Artifacts.nil
    THEN hunt
    ELSE IF Len(hunt.Artifacts.elems) > 0 THEN hunt
    ELSE [hunt EXCEPT !.Artifacts = hunt.StartRequest.Artifacts,
                      !.ArtifactSources =
                          JoinedSources(hunt.StartRequest.Artifacts.elems)]

\* A GetHunt that drops the dispatcher's error.
GetHuntResult_DropsError(hunt_id) ==
    IF ~dispatcherUp
    THEN [hunt |-> NoHunt, err |-> "DispatcherNotValid"]
    ELSE LET cb == [hunt_obj \in Found(hunt_id) |->
                        [err |-> notModified, hunt |-> hunt_obj, rows |-> 0]]
             r == DispatcherModifyHunt(hunt_id, cb)
             result == FindCollectedArtifacts(r.arg)
         IN
         IF r.err # notModified
         THEN [hunt |-> NoHunt, err |-> NoError]
         ELSE IF result = NoHunt \/ result.Stats = NoStats
         THEN [hunt |-> result, err |-> "NotFound"]
         ELSE [hunt |-> result, err |-> NoError]

\* The hunt and the error GetHunt returns (the hunt's AvailableDownloads, a
\* listing of the file store, is left out).
GetHuntResult(hunt_id) ==
    IF ~dispatcherUp
    THEN [hunt |-> NoHunt, err |-> "DispatcherNotValid"]
    ELSE LET cb == [hunt_obj \in Found(hunt_id) |->
                        [err |-> notModified, hunt |-> hunt_obj, rows |-> 0]]
             r == DispatcherModifyHunt(hunt_id, cb)
             result == FindCollectedArtifacts(r.arg)
         IN
         IF r.err # notModified
         THEN [hunt |-> NoHunt, err |-> r.err]
         ELSE IF result = NoHunt \/ result.Stats = NoStats
         THEN [hunt |-> result, err |-> "NotFound"]
         ELSE [hunt |-> result, err |-> NoError]

\* The request of GetHunt is kept with the call it follows.
GetHunt(hunt_id) ==
    /\ last' = Returned("GetHunt",
                        [HuntId |-> hunt_id,
                         after |-> [op |-> last.op, id |-> last.id, err |-> last.err]],
                        "", GetHuntResult(hunt_id).err, GetHuntResult(hunt_id).hunt,
                        <<>>, 0)
    /\ UNCHANGED <<store, mirror, dispatcherUp, now, conc>>

\* --------------------------------------------------------------- ListHunts
\* The orders ApplyFuncOnHunts may visit the mirror's hunts in.
Present == {id \in HuntIds : mirror[id] # NoHunt}
Orders(S) ==
    {o \in [1..Cardinality(S) -> S] : \A i, j \in DOMAIN o : i # j => o[i] # o[j]}

\* ListHunts' callback over the hunts from position i of `order` on, with
\* `items` collected so far: the items when the iteration ends.
RECURSIVE Collect(_, _, _, _)
Collect(order, i, items, in) ==
    IF i > Len(order) THEN items
    ELSE IF Len(items) < in.Offset
    THEN Collect(order, i + 1, items, in)
    ELSE IF Len(items) >= in.Offset + in.Count
    THEN items
    ELSE IF in.IncludeArchived \/ mirror[order[i]].State # Hunt_ARCHIVED
    THEN Collect(order, i + 1, Append(items, order[i]), in)
    ELSE Collect(order, i + 1, items, in)

\* The error ListHunts' callback returns for the hunt the iteration ends at:
\* nil when every hunt was visited, STOP_ITERATION when it stopped early.
RECURSIVE CollectError(_, _, _, _)
CollectError(order, i, items, in) ==
    IF i > Len(order) THEN NoError
    ELSE IF Len(items) < in.Offset
    THEN CollectError(order, i + 1, items, in)
    ELSE IF Len(items) >= in.Offset + in.Count
    THEN STOP_ITERATION
    ELSE IF in.IncludeArchived \/ mirror[order[i]].State # Hunt_ARCHIVED
    THEN CollectError(order, i + 1, Append(items, order[i]), in)
    ELSE CollectError(order, i + 1, items, in)

\* What ApplyFuncOnHunts returns to ListHunts: the callback's error, or nil
\* when the dispatcher takes the stop sentinel for itself.
AppliedErrors(order, in) ==
    {CollectError(order, 1, <<>>, in)} \cup {NoError}

\* A ListHunts that returns the error of the iteration as it is.
ListError_Leaks(err) == err

\* ListHunts turns STOP_ITERATION into nil.
ListError(err) == IF err = STOP_ITERATION THEN NoError ELSE err

\* sort.Slice by CreateTime, newest first: some arrangement of the items in
\* which no hunt comes after an older one (the sort is not stable).
SortedByCreateTime(items) ==
    {s \in Orders({items[i] : i \in DOMAIN items}) :
        \A i, j \in DOMAIN s :
            i < j => mirror[s[i]].CreateTime >= mirror[s[j]].CreateTime}

ListInputs ==
    [Offset : 0..MaxCount, Count : 0..MaxCount, IncludeArchived : BOOLEAN]

ListHunts(in, order) ==
    /\ IF ~dispatcherUp
       THEN last' = Returned("ListHunts", in, "", "DispatcherNotInitialized",
                             NoHunt, <<>>, 0)
       ELSE \E sorted \in SortedByCreateTime(Collect(order, 1, <<>>, in)),
               err \in AppliedErrors(order, in) :
                last' = Returned("ListHunts", in, "", ListError(err), NoHunt,
                                 sorted, 0)
    /\ UNCHANGED <<store, mirror, dispatcherUp, now, conc>>

\* time passes
Tick ==
    /\ now < MaxTime
    /\ now' = now + 1
    /\ last' = NoCall
    /\ UNCHANGED <<store, mirror, dispatcherUp, conc>>

\* ---------------------------------------------------------- specifications
\* Spec: the life of one hunt, H.1, under every CreateHunt and ModifyHunt
\* request for artifact A and every failure of the services they call, the
\* dispatcher's refresh excepted.  CreateHunt draws the hunt's id; H.2 is
\* asked for but never created.
OneHunt == {"H.1"}
AskedIds == {"H.1", "H.2"}
LifeCalls == CreateCalls({""}, {ARequest}, StatsInputs, {"none", "set"})
LifeModifications == ModifyCalls(OneHunt)

Next ==
    \/ Tick
    \/ StartHuntDispatcher
    \/ PeriodicRefresh
    \/ \E c \in LifeCalls, new_id \in OneHunt, later \in {now, now + 1} :
            CreateHunt(c.hunt, new_id, c.fault, c.notifier, later)
    \/ \E c \in LifeModifications :
            ModifyHunt(c.hunt_modification, c.journal, c.notifier)
    \/ \E hunt_id \in AskedIds : GetHunt(hunt_id)

Spec == Init /\ [][Next]_vars

\* SpecCreate: CreateHunt and GetHunt when the dispatcher's refresh can fail
\* too, so that the mirror may lag behind the datastore.
FreshCalls == CreateCalls({""}, {ARequest}, {NoStats}, {"none", "refresh"})

NextCreate ==
    \/ Tick
    \/ StartHuntDispatcher
    \/ PeriodicRefresh
    \/ \E c \in FreshCalls, new_id \in OneHunt, later \in {now, now + 1} :
            CreateHunt(c.hunt, new_id, c.fault, c.notifier, later)
    \/ \E hunt_id \in AskedIds : GetHunt(hunt_id)

SpecCreate == Init /\ [][NextCreate]_vars

\* SpecList: ListHunts over a mirror of up to three hunts, created one after
\* another by well-formed requests and archived by ModifyHunt, with a
\* dispatcher that is running from the start.
InitList ==
    /\ store = [id \in HuntIds |-> NoHunt]
    /\ mirror = [id \in HuntIds |-> NoHunt]
    /\ dispatcherUp = TRUE
    /\ now = 1
    /\ last = NoCall
    /\ task = [t \in Tasks |-> IdleTask]
    /\ mutex = 0
    /\ wmi = NewPlugin

ListCalls ==
    [hunt : [HuntId : {""}, State : {Hunt_UNSET}, Expires : {1 + SevenDays},
             StartRequest : {ARequest}, Stats : {NoStats}],
     fault : {"none"}, notifier : {"ok"}]
ListModifications ==
    [hunt_modification :
        [HuntId : HuntIds, State : {Hunt_ARCHIVED}, HuntDescription : {""}],
     journal : {"ok"}, notifier : {"ok"}]

NextList ==
    \/ Tick
    \/ \E c \in ListCalls, new_id \in HuntIds :
            CreateHunt(c.hunt, new_id, c.fault, c.notifier, now)
    \/ \E c \in ListModifications :
            ModifyHunt(c.hunt_modification, c.journal, c.notifier)
    \/ \E in \in ListInputs, order \in Orders(Present) : ListHunts(in, order)

SpecList == InitList /\ [][NextList]_vars

\* ------------------------------------------------- concurrent ModifyHunt
\* SpecConc: NumTasks tasks call the dispatcher's ModifyHunt for hunt H.1 at
\* the same time.  A task either counts a scheduled client in Stats or edits
\* the description as flows.ModifyHunt does.  The dispatcher takes its lock,
\* hands the callback a copy of the hunt, and commits the copy and releases
\* the lock when the callback returns nil.
Description == [HuntId |-> "H.1", State |-> Hunt_UNSET, HuntDescription |-> "d"]

InitConc ==
    /\ now = 1
    /\ dispatcherUp = TRUE
    /\ store = [id \in HuntIds |->
                  IF id = "H.1"
                  THEN BuiltHunt([HuntId |-> "", State |-> Hunt_RUNNING,
                                  Expires |-> 0, StartRequest |-> ARequest,
                                  Stats |-> NoStats], "H.1", 1)
                  ELSE NoHunt]
    /\ mirror = store
    /\ last = NoCall
    /\ task = [t \in Tasks |-> IdleTask]
    /\ mutex = 0
    /\ wmi = NewPlugin

\* A dispatcher that does not wait for its lock.
LockFree_Always == TRUE

\* The lock is free.
LockFree == mutex = 0

CallDispatcher(t, kind) ==
    /\ task[t].pc = "idle"
    /\ task' = [task EXCEPT ![t] = [@ EXCEPT !.pc = "calling", !.kind = kind]]
    /\ UNCHANGED <<store, mirror, dispatcherUp, now, last, mutex, wmi>>

Lock(t) ==
    /\ task[t].pc = "calling"
    /\ LockFree
    /\ mutex' = t
    /\ task' = [task EXCEPT ![t] = [@ EXCEPT !.pc = "locked", !.copy = mirror["H.1"]]]
    /\ UNCHANGED <<store, mirror, dispatcherUp, now, last, wmi>>

Callback(t) ==
    /\ task[t].pc = "locked"
    /\ task' = [task EXCEPT ![t] =
            [@ EXCEPT !.pc = "returned",
                      !.copy = IF task[t].kind = "count"
                               THEN [@ EXCEPT !.Stats.TotalClientsScheduled = @ + 1]
                               ELSE HuntMutator(@, Description, "ok", now).hunt]]
    /\ UNCHANGED <<store, mirror, dispatcherUp, now, last, mutex, wmi>>

Commit(t) ==
    /\ task[t].pc = "returned"
    /\ mirror' = [mirror EXCEPT !["H.1"] = task[t].copy]
    /\ store' = [store EXCEPT !["H.1"] = task[t].copy]
    /\ mutex' = 0
    /\ task' = [task EXCEPT ![t] = [@ EXCEPT !.pc = "done"]]
    /\ UNCHANGED <<dispatcherUp, now, last, wmi>>

NextConc ==
    \/ \E t \in Tasks, kind \in {"count", "describe"} : CallDispatcher(t, kind)
    \/ \E t \in Tasks : Lock(t)
    \/ \E t \in Tasks : Callback(t)
    \/ \E t \in Tasks : Commit(t)

SpecConc == InitConc /\ [][NextConc]_vars

\* SpecRequests: two hunts, created with an id the caller names or one that
\* GetNewHuntId draws (which may be the id of a hunt that exists), from a
\* request with artifact A, with an empty artifact list or with compiled args
\* in it; then archived or described, read and listed.  The dispatcher is
\* running and the clock stands still.
TwoHunts == {"H.1", "H.2"}
RequestCalls ==
    [hunt : [HuntId : {"", "H.1"}, State : {Hunt_UNSET},
             Expires : {1 + SevenDays},
             StartRequest : {ARequest, EmptyRequest, PrecompiledRequest},
             Stats : {NoStats}],
     fault : {"none", "compile"}, notifier : {"ok"}]
RequestModifications ==
    [hunt_modification :
        {[HuntId |-> id, State |-> Hunt_ARCHIVED, HuntDescription |-> ""] :
            id \in TwoHunts}
        \cup {[HuntId |-> id, State |-> Hunt_RUNNING, HuntDescription |-> "d"] :
            id \in TwoHunts},
     journal : {"ok"}, notifier : {"ok"}]

NextRequests ==
    \/ \E c \in RequestCalls, new_id \in TwoHunts :
            CreateHunt(c.hunt, new_id, c.fault, c.notifier, now)
    \/ \E c \in RequestModifications :
            ModifyHunt(c.hunt_modification, c.journal, c.notifier)
    \/ \E hunt_id \in TwoHunts : GetHunt(hunt_id)
    \/ \E in \in ListInputs, order \in Orders(Present) : ListHunts(in, order)

SpecRequests == InitList /\ [][NextRequests]_vars

\* ------------------------------------------------------ wmi_events plugin
\* The slots of event_context.output.
QueueSize == 100

\* The worker has returned: its deferred calls have closed output_chan.
Returns(plugin) == [plugin EXCEPT !.pc = "done", !.closed = TRUE]

\* vfilter.ExtractArgs: on an error the worker logs it and returns.
ExtractArgs(ok) ==
    /\ wmi.pc = "start"
    /\ wmi' = IF ok THEN [wmi EXCEPT !.pc = "watch"] ELSE Returns(wmi)
    /\ UNCHANGED hunts

\* C.watchEvents: the native watcher, or nil and the worker returns.
WatchEvents(ok) ==
    /\ wmi.pc = "watch"
    /\ wmi' = IF ok THEN [wmi EXCEPT !.pc = "select", !.watcher = "active"]
              ELSE Returns(wmi)
    /\ UNCHANGED hunts

\* sub_ctx is done: the wait has elapsed or the parent context is cancelled.
ContextDone(why) ==
    /\ wmi.pc # "done"
    /\ wmi.ctx = "live"
    /\ wmi' = [wmi EXCEPT !.ctx = why]
    /\ UNCHANGED hunts

\* The native watcher calls process_event: the event is queued when a slot
\* is free and dropped otherwise; the callback returns either way.
ProcessEvent ==
    /\ wmi.watcher = "active"
    /\ wmi' = IF wmi.queue < QueueSize
              THEN [wmi EXCEPT !.queue = @ + 1, !.event = "queued",
                               !.seen = wmi.queue]
              ELSE [wmi EXCEPT !.event = "dropped", !.seen = wmi.queue]
    /\ UNCHANGED hunts

\* select, case <-sub_ctx.Done(): destroy the watcher and return.
SelectDone ==
    /\ wmi.pc = "select"
    /\ wmi.ctx # "live"
    /\ wmi' = Returns([wmi EXCEPT !.watcher = "destroyed"])
    /\ UNCHANGED hunts

\* select, case item := <-event_context.output: take the next event.
SelectItem ==
    /\ wmi.pc = "select"
    /\ wmi.queue > 0
    /\ wmi' = [wmi EXCEPT !.pc = "send", !.queue = @ - 1]
    /\ UNCHANGED hunts

\* output_chan <- item: output_chan has no buffer, so the send goes through
\* when the consumer receives and waits until then.
SendItem ==
    /\ wmi.pc = "send"
    /\ wmi.consumer = "reading"
    /\ wmi' = [wmi EXCEPT !.pc = "select"]
    /\ UNCHANGED hunts

\* The consumer stops receiving from output_chan.
ConsumerStops ==
    /\ wmi.consumer = "reading"
    /\ wmi.pc # "done"
    /\ wmi' = [wmi EXCEPT !.consumer = "gone"]
    /\ UNCHANGED hunts

\* The steps of the worker goroutine.
Worker ==
    \/ \E ok \in BOOLEAN : ExtractArgs(ok)
    \/ \E ok \in BOOLEAN : WatchEvents(ok)
    \/ SelectDone
    \/ SelectItem
    \/ SendItem

NextWmi ==
    \/ \E ok \in BOOLEAN : ExtractArgs(ok)
    \/ \E ok \in BOOLEAN : WatchEvents(ok)
    \/ \E why \in {"timeout", "cancelled"} : ContextDone(why)
    \/ ProcessEvent
    \/ SelectDone
    \/ SelectItem
    \/ SendItem
    \/ ConsumerStops

\* SpecWmi: one call of the plugin.  The worker goroutine runs whenever it
\* can take a step, and a select that finds sub_ctx done again and again
\* takes that case in the end; the watcher, the contexts and the consumer
\* are free to act or not.
SpecWmi ==
    Init /\ [][NextWmi]_vars /\ WF_vars(Worker) /\ SF_vars(SelectDone)

\* ------------------------------------------------------------------ claims
Min(a, b) == IF a < b THEN a ELSE b
Max(a, b) == IF a > b THEN a ELSE b

\* The latest step was a call of ModifyHunt that found hunt `id` in the mirror.
ModifiedHunt(id) ==
    /\ last.op = "ModifyHunt"
    /\ last.req.HuntId = id
    /\ last.was.mirror[id] # NoHunt

\* C1: once a hunt is ARCHIVED, a ModifyHunt call that requests a state
\* (and edits no description) returns an error and the hunt stays ARCHIVED
\* in the mirror and in the datastore.
C1_ArchivedIsTerminal ==
    \A id \in HuntIds :
        (/\ ModifiedHunt(id)
         /\ last.was.mirror[id].State = Hunt_ARCHIVED
         /\ last.req.HuntDescription = ""
         /\ last.req.State # Hunt_UNSET)
        => /\ last.err # NoError
           /\ mirror[id].State = Hunt_ARCHIVED
           /\ store[id].State = Hunt_ARCHIVED

\* The transitions of the hunt state machine.
AllowedTransition(from, to) ==
    \/ from = Hunt_PAUSED /\ to = Hunt_RUNNING
    \/ from = Hunt_RUNNING /\ to = Hunt_STOPPED
    \/ from \in {Hunt_PAUSED, Hunt_RUNNING, Hunt_STOPPED} /\ to = Hunt_ARCHIVED

\* C2: a ModifyHunt call without a description on a PAUSED, RUNNING or
\* STOPPED hunt changes State only along an allowed transition; any other
\* request is rejected with an error and leaves the hunt as it was.
C2_OnlyAllowedTransitions ==
    \A id \in HuntIds :
        (/\ ModifiedHunt(id)
         /\ last.req.HuntDescription = ""
         /\ last.was.mirror[id].State \in {Hunt_PAUSED, Hunt_RUNNING, Hunt_STOPPED})
        => /\ mirror[id].State # last.was.mirror[id].State =>
                AllowedTransition(last.was.mirror[id].State, mirror[id].State)
           /\ ~AllowedTransition(last.was.mirror[id].State, last.req.State) =>
                /\ last.err # NoError
                /\ mirror = last.was.mirror
                /\ store = last.was.store

\* The latest step was a call of ModifyHunt on a hunt whose Stats.Stopped is set.
ModifiedStoppedHunt(id) ==
    /\ ModifiedHunt(id)
    /\ last.was.mirror[id].Stats # NoStats
    /\ last.was.mirror[id].Stats.Stopped

\* C3 as claimed: every ModifyHunt call that requests RUNNING on a hunt
\* whose Stats.Stopped is set returns an error and leaves State and
\* StartTime as they were.
C3_StartingStoppedHuntFails ==
    \A id \in HuntIds :
        (ModifiedStoppedHunt(id) /\ last.req.State = Hunt_RUNNING)
        => /\ last.err # NoError
           /\ mirror[id].State = last.was.mirror[id].State
           /\ mirror[id].StartTime = last.was.mirror[id].StartTime

\* C3 as amended: a ModifyHunt call that requests RUNNING and carries no
\* description, on a hunt whose Stats.Stopped is set, returns an error and
\* changes nothing in the mirror and the datastore; when it carries a
\* description too, State and StartTime still stay as they were; and no
\* ModifyHunt call at all moves a hunt whose Stats.Stopped is set into RUNNING.
C3_StoppedHuntNeverStarts ==
    \A id \in HuntIds :
        ModifiedStoppedHunt(id)
        => /\ (last.req.State = Hunt_RUNNING /\ last.req.HuntDescription = "") =>
                /\ last.err # NoError
                /\ mirror = last.was.mirror
                /\ store = last.was.store
           /\ last.req.State = Hunt_RUNNING =>
                /\ mirror[id].State = last.was.mirror[id].State
                /\ mirror[id].StartTime = last.was.mirror[id].StartTime
                /\ store[id].State = last.was.store[id].State
                /\ store[id].StartTime = last.was.store[id].StartTime
           /\ last.was.mirror[id].State # Hunt_RUNNING =>
                mirror[id].State # Hunt_RUNNING /\ store[id].State # Hunt_RUNNING

\* A PAUSED hunt whose Stats.Stopped is set was asked to run, without a
\* description, and the call was turned down.
C3_Witness ==
    /\ ModifiedStoppedHunt("H.1")
    /\ last.was.mirror["H.1"].State = Hunt_PAUSED
    /\ last.req.State = Hunt_RUNNING
    /\ last.req.HuntDescription = ""
    /\ last.err = "StoppedHunt"

\* The tasks that have finished a call of the given kind.
Done(kind) == {t \in Tasks : task[t].pc = "done" /\ task[t].kind = kind}

\* C4: concurrent ModifyHunt calls on one hunt never interleave their
\* read-modify-write, and none of their changes is lost: the hunt counts as
\* many clients as calls that counted one have finished, and carries the
\* description once a call that edited it has finished.
C4_NoLostUpdate ==
    /\ Cardinality({t \in Tasks : task[t].pc \in {"locked", "returned"}}) <= 1
    /\ mirror["H.1"].Stats.TotalClientsScheduled = Cardinality(Done("count"))
    /\ Done("describe") # {} => mirror["H.1"].HuntDescription = "d"
    /\ store["H.1"] = mirror["H.1"]

\* Every task has finished: two counted a client and one edited the description.
C4_Witness ==
    /\ \A t \in Tasks : task[t].pc = "done"
    /\ Cardinality(Done("count")) >= 2
    /\ Done("describe") # {}
    /\ mirror["H.1"].Stats.TotalClientsScheduled >= 2

\* C5: a GetHunt that follows at once on a successful CreateHunt, for the
\* id it returned, succeeds, and its hunt carries the artifacts of the
\* StartRequest given to CreateHunt and the resolved State.
C5_CreatedHuntIsVisible ==
    [][(/\ last.op = "CreateHunt" /\ last.err = NoError
        /\ last'.op = "GetHunt" /\ last'.req.HuntId = last.id)
       => /\ last'.err = NoError
          /\ last'.hunt # NoHunt
          /\ last'.hunt.HuntId = last.id
          /\ last'.hunt.StartRequest.Artifacts = last.req.StartRequest.Artifacts
          /\ last'.hunt.State =
                IF last.req.State = Hunt_UNSET THEN Hunt_PAUSED ELSE last.req.State]_vars

\* GetHunt has just returned the RUNNING hunt that the call before it created.
C5_Witness ==
    /\ last.op = "GetHunt"
    /\ last.req.after = [op |-> "CreateHunt", id |-> last.req.HuntId, err |-> NoError]
    /\ last.err = NoError
    /\ last.hunt # NoHunt
    /\ last.hunt.State = Hunt_RUNNING

\* GetHunt was asked for an id no hunt was ever created with.
AskedUnknown ==
    /\ last.op = "GetHunt"
    /\ store[last.req.HuntId] = NoHunt
    /\ mirror[last.req.HuntId] = NoHunt

\* C6 as claimed: GetHunt never returns a nil hunt with a nil error, and for
\* an id that was never created it returns a not-found error.
C6_UnknownHuntIsNotFound ==
    /\ last.op = "GetHunt" => ~(last.hunt = NoHunt /\ last.err = NoError)
    /\ AskedUnknown => last.err = "NotFound"

\* C6 as amended: GetHunt never returns a nil hunt with a nil error; for an
\* id that was never created it returns no hunt and an error, which is the
\* dispatcher's not-found error when a dispatcher is registered and "Hunt
\* dispatcher not valid" when none is.
C6_NeverNilHuntAndNilError ==
    /\ last.op = "GetHunt" => ~(last.hunt = NoHunt /\ last.err = NoError)
    /\ AskedUnknown =>
        /\ last.hunt = NoHunt
        /\ last.err = IF dispatcherUp THEN "NotFound" ELSE "DispatcherNotValid"

\* A running dispatcher was asked for H.2, which was never created, while
\* H.1 exists.
C6_Witness ==
    /\ AskedUnknown
    /\ dispatcherUp
    /\ last.req.HuntId = "H.2"
    /\ mirror["H.1"] # NoHunt
    /\ last.err = "NotFound"

\* The hunts the mirror holds, and those ListHunts was to choose from.
Matching(in) ==
    {id \in Present : in.IncludeArchived \/ mirror[id].State # Hunt_ARCHIVED}
Items == {last.items[i] : i \in DOMAIN last.items}

\* C7: ListHunts(offset=0, count=k) on a mirror of n hunts, none archived,
\* with distinct CreateTimes, returns the min(k, n) newest, newest first.
C7_ListsNewestFirst ==
    (/\ last.op = "ListHunts" /\ last.err = NoError
     /\ last.req.Offset = 0
     /\ \A id \in Present : mirror[id].State # Hunt_ARCHIVED
     /\ \A a, b \in Present : a # b => mirror[a].CreateTime # mirror[b].CreateTime)
    => /\ Len(last.items) = Min(last.req.Count, Cardinality(Present))
       /\ \A i, j \in DOMAIN last.items :
            i < j => mirror[last.items[i]].CreateTime > mirror[last.items[j]].CreateTime
       /\ \A a \in Items, b \in Present \ Items :
            mirror[a].CreateTime > mirror[b].CreateTime

\* C8: ListHunts skips the first `offset` matching hunts and collects up to
\* `count` of the rest: with M matching hunts it returns
\* min(count, max(0, M - offset)) hunts, none ARCHIVED unless asked for.
C8_ListSkipsOffset ==
    (last.op = "ListHunts" /\ last.err = NoError)
    => /\ Len(last.items) =
            Min(last.req.Count,
                Max(0, Cardinality(Matching(last.req)) - last.req.Offset))
       /\ Items \subseteq Matching(last.req)

\* The errors CreateHunt returns before it reaches db.SetSubject.
EarlyErrors ==
    {"NoDatastore", "NoArtifacts", "ExpiryInPast", "NoRepositoryManager",
     "NoRepository", "NoLauncher", "CompileFailed", "NotifyFailed"}

\* C9: a CreateHunt call that fails before the durable write leaves the
\* datastore as it was.
C9_FailedCreateWritesNothing ==
    (last.op = "CreateHunt" /\ last.err \in EarlyErrors)
    => /\ store = last.was.store
       /\ mirror = last.was.mirror

\* The compiler failed for a well-formed request and no hunt is stored.
C9_Witness ==
    /\ last.op = "CreateHunt"
    /\ last.err = "CompileFailed"
    /\ last.req.StartRequest = ARequest
    /\ store["H.1"] = NoHunt

\* The latest step was a CreateHunt that wrote its hunt and left Expires to
\* be defaulted.
DefaultedExpires ==
    /\ last.op = "CreateHunt" /\ last.err = NoError
    /\ last.req.Expires = 0

\* C10 as claimed: an unset Expires is defaulted to CreateTime + 7 days.
C10_DefaultIsCreateTimePlusSevenDays ==
    DefaultedExpires =>
        store[last.id].Expires = store[last.id].CreateTime + SevenDays

\* C10 as amended: CreateHunt rejects a request whose Expires is earlier than
\* the CreateTime it assigns, every stored hunt has Expires >= CreateTime,
\* ModifyHunt changes neither, and an unset Expires is defaulted to seven
\* days after a second reading of the clock: CreateTime + 7 days or later.
C10_ExpiresNotBeforeCreateTime ==
    /\ \A id \in HuntIds :
        /\ store[id] # NoHunt => store[id].Expires >= store[id].CreateTime
        /\ mirror[id] # NoHunt => mirror[id].Expires >= mirror[id].CreateTime
        /\ ModifiedHunt(id) =>
            /\ mirror[id].Expires = last.was.mirror[id].Expires
            /\ mirror[id].CreateTime = last.was.mirror[id].CreateTime
    /\ (last.op = "CreateHunt" /\ last.req.Expires # 0 /\ last.req.Expires < now) =>
            last.err # NoError /\ store = last.was.store
    /\ DefaultedExpires =>
        /\ store[last.id].CreateTime <= now
        /\ store[last.id].Expires = now + SevenDays
        /\ store[last.id].Expires >= store[last.id].CreateTime + SevenDays

\* The clock moved on between CreateHunt's two readings of it.
C10_Witness ==
    /\ DefaultedExpires
    /\ store[last.id].Expires > store[last.id].CreateTime + SevenDays

\* C11: CreateHunt rejects, with an error and nothing written, every request
\* whose StartRequest is absent or whose artifact list is empty, a present
\* list of length zero included.
C11_RejectsEmptyArtifacts ==
    (/\ last.op = "CreateHunt"
     /\ \/ last.req.StartRequest = NoRequest
        \/ Len(last.req.StartRequest.Artifacts.elems) = 0)
    => /\ last.err # NoError
       /\ store = last.was.store

\* The compiled request of a hunt; none for no hunt.
Compiled(hunt) ==
    IF hunt = NoHunt THEN <<>> ELSE hunt.StartRequest.CompiledCollectorArgs

\* ModifyHunt, GetHunt and ListHunts leave every compiled request as it was.
CompiledIsKept ==
    last.op \in {"ModifyHunt", "GetHunt", "ListHunts"} =>
        \A id \in HuntIds :
            /\ Compiled(store[id]) = Compiled(last.was.store[id])
            /\ Compiled(mirror[id]) = Compiled(last.was.mirror[id])

\* C12 as claimed: the compiled request of every stored hunt is exactly the
\* output of the compiler for its request, and no ModifyHunt, GetHunt or
\* ListHunts call changes it.
C12_CompiledIsCompilerOutput ==
    /\ \A id \in HuntIds :
            store[id] # NoHunt =>
                Compiled(store[id]) = CompileCollectorArgs(store[id].StartRequest)
    /\ CompiledIsKept

\* C12 as amended: the compiled request of a stored hunt is what the
\* CreateHunt call that wrote the record made of it, the compiled args the
\* caller's StartRequest carried followed by the output of the compiler, and
\* no ModifyHunt, GetHunt or ListHunts call changes it.
C12_CompiledIsAppendedAtCreation ==
    /\ (last.op = "CreateHunt" /\ last.err = NoError) =>
            Compiled(store[last.id]) =
                last.req.StartRequest.CompiledCollectorArgs
                    \o CompileCollectorArgs(last.req.StartRequest)
    /\ \A id \in HuntIds :
            store[id] # NoHunt =>
                \E given \in {<<>>, PrecompiledRequest.CompiledCollectorArgs} :
                    Compiled(store[id]) =
                        given \o CompileCollectorArgs(store[id].StartRequest)
    /\ CompiledIsKept

\* A hunt created from a request that carried compiled args was archived:
\* it holds the caller's args and the compiler's.
C12_Witness ==
    /\ ModifiedHunt("H.1")
    /\ last.err = NoError
    /\ mirror["H.1"].State = Hunt_ARCHIVED
    /\ Compiled(store["H.1"]) =
            PrecompiledRequest.CompiledCollectorArgs
                \o CompileCollectorArgs(PrecompiledRequest)

\* C13: every successful CreateHunt returns an id that no hunt in the
\* datastore had, so it never overwrites the record of an existing hunt.
C13_HuntIdsAreUnique ==
    (last.op = "CreateHunt" /\ last.err = NoError) =>
        last.was.store[last.id] = NoHunt

\* C14: ModifyHunt returns an error, and neither crashes nor succeeds, when
\* there is no dispatcher, when the hunt id is unknown, and when the
\* requested transition is not an allowed one.
C14_ModifyHuntReturnsError ==
    \A id \in HuntIds :
        (last.op = "ModifyHunt" /\ last.req.HuntId = id) =>
            /\ ~dispatcherUp => last.err \notin {NoError, Panic}
            /\ (dispatcherUp /\ last.was.mirror[id] = NoHunt) =>
                    last.err \notin {NoError, Panic}
            /\ (/\ ModifiedHunt(id)
                /\ last.req.HuntDescription = ""
                /\ ~AllowedTransition(last.was.mirror[id].State, last.req.State))
               => last.err \notin {NoError, Panic}

\* C15: the control sentinels reach no caller: ListHunts returns a nil error
\* also when its callback stopped the iteration early, and GetHunt on a hunt
\* the mirror holds with Stats returns that hunt with a nil error.
C15_SentinelsAreNotFailures ==
    /\ (last.op = "ListHunts" /\ dispatcherUp) => last.err = NoError
    /\ \A id \in HuntIds :
            (/\ last.op = "GetHunt" /\ last.req.HuntId = id
             /\ dispatcherUp
             /\ mirror[id] # NoHunt /\ mirror[id].Stats # NoStats)
            => /\ last.err = NoError
               /\ last.hunt = FindCollectedArtifacts(mirror[id])

\* ListHunts was asked for one of two hunts: its callback took the first
\* and stopped the iteration at the second.
C15_Witness ==
    /\ last.op = "ListHunts"
    /\ last.req.Offset = 0 /\ last.req.Count = 1
    /\ Cardinality(Matching(last.req)) = 2
    /\ Len(last.items) = 1
    /\ last.err = NoError

\* C16: after a successful CreateHunt the hunt it stored is PAUSED (State
\* left unset) or RUNNING (RUNNING asked for, and then StartTime is
\* CreateTime); never UNSET, STOPPED or ARCHIVED.
C16_CreatedPausedOrRunning ==
    (last.op = "CreateHunt" /\ last.err = NoError) =>
        /\ store[last.id].State \in {Hunt_PAUSED, Hunt_RUNNING}
        /\ last.req.State = Hunt_UNSET => store[last.id].State = Hunt_PAUSED
        /\ last.req.State = Hunt_RUNNING =>
                /\ store[last.id].State = Hunt_RUNNING
                /\ store[last.id].StartTime = store[last.id].CreateTime

\* C17: a ModifyHunt call that carries a description changes the hunt's
\* HuntDescription to it and nothing else of the hunt (State, StartTime,
\* Stats and the compiled request stay), also when it names a State; a call
\* that carries none leaves HuntDescription as it was.
C17_OneEffect ==
    \A id \in HuntIds :
        ModifiedHunt(id) =>
            /\ last.req.HuntDescription # "" =>
                /\ mirror[id] =
                        [last.was.mirror[id] EXCEPT
                            !.HuntDescription = last.req.HuntDescription]
                /\ store[id] =
                        [last.was.store[id] EXCEPT
                            !.HuntDescription = last.req.HuntDescription]
            /\ last.req.HuntDescription = "" =>
                /\ mirror[id].HuntDescription = last.was.mirror[id].HuntDescription
                /\ store[id].HuntDescription = last.was.store[id].HuntDescription

\* A PAUSED hunt was asked to run and given a description in one call: it
\* has the description and is still PAUSED.
C17_Witness ==
    /\ ModifiedHunt("H.1")
    /\ last.req.HuntDescription = "d" /\ last.req.State = Hunt_RUNNING
    /\ last.was.mirror["H.1"].State = Hunt_PAUSED
    /\ last.was.mirror["H.1"].HuntDescription = ""
    /\ mirror["H.1"].State = Hunt_PAUSED
    /\ mirror["H.1"].HuntDescription = "d"

\* The errors ModifyHunt returns for the notifier.
NotifierErrors == {"NotifierNotReady", "NotifyFailed"}

\* C18 as claimed: whenever ModifyHunt returns an error, a missing notifier
\* and a failed notification included, the mirror and the datastore are as
\* they were before the call.
C18_ErrorMeansUnchanged ==
    (last.op = "ModifyHunt" /\ last.err # NoError) =>
        /\ mirror = last.was.mirror
        /\ store = last.was.store

\* C18 as amended: when ModifyHunt returns an error of the dispatcher call
\* (unknown, invalid or stopped hunt, journal failure) the mirror and the
\* datastore are as they were; when it returns an error for the notifier,
\* the change the mutator made has been committed to both.
C18_DispatcherErrorMeansUnchanged ==
    \A id \in HuntIds :
        (last.op = "ModifyHunt" /\ last.req.HuntId = id) =>
            /\ last.err \notin NotifierErrors \cup {NoError} =>
                /\ mirror = last.was.mirror
                /\ store = last.was.store
            /\ last.err \in NotifierErrors =>
                /\ last.was.mirror[id] # NoHunt
                /\ mirror[id] =
                        HuntMutator(last.was.mirror[id], last.req, "ok", now).hunt
                /\ store[id] = mirror[id]

\* No notifier is registered: ModifyHunt returned its error, and the PAUSED
\* hunt it was to start is RUNNING.
C18_Witness ==
    /\ ModifiedHunt("H.1")
    /\ last.err = "NotifierNotReady"
    /\ last.was.mirror["H.1"].State = Hunt_PAUSED
    /\ mirror["H.1"].State = Hunt_RUNNING
    /\ store["H.1"].State = Hunt_RUNNING

\* The errors of the journal.
JournalErrors == {"NoJournal", "PushRowsFailed"}

\* A ModifyHunt call moved hunt `id` into ARCHIVED.
Archived(id) ==
    /\ ModifiedHunt(id)
    /\ last.was.mirror[id].State # Hunt_ARCHIVED
    /\ mirror[id].State = Hunt_ARCHIVED

Position(effect) ==
    IF \E i \in DOMAIN last.effects : last.effects[i] = effect
    THEN CHOOSE i \in DOMAIN last.effects : last.effects[i] = effect
    ELSE 0

\* C20 as claimed: when CreateHunt notifies the clients, it has written the
\* hunt to the datastore before.
C20_NotifiedAfterWrite ==
    (last.op = "CreateHunt" /\ Position("notify") > 0) =>
        /\ Position("write") > 0
        /\ Position("write") < Position("notify")

\* C20 as amended: CreateHunt notifies the clients only for a hunt asked to
\* be RUNNING, and before it writes the hunt: no write comes before the
\* notification, and when the write fails after it the datastore is as it
\* was, without the hunt that was announced.
C20_NotifiedBeforeWrite ==
    (last.op = "CreateHunt" /\ Position("notify") > 0) =>
        /\ last.err \in {NoError, Panic} => last.req.State = Hunt_RUNNING
        /\ Position("notify") = 1
        /\ Position("write") > 0 => Position("notify") < Position("write")
        /\ Position("write") = 0 =>
                /\ last.err = "SetSubjectFailed"
                /\ store = last.was.store

\* A RUNNING hunt was created: the clients were notified, then the hunt was
\* written and the dispatcher refreshed.
C20_Witness ==
    /\ last.op = "CreateHunt"
    /\ last.err = NoError
    /\ last.req.State = Hunt_RUNNING
    /\ last.effects = <<"notify", "write", "refresh">>
    /\ store[last.id].State = Hunt_RUNNING

\* The worker of wmi_events has ended: output_chan is closed and no native
\* watcher is left.
Terminated == wmi.pc = "done" /\ wmi.closed /\ wmi.watcher # "active"

\* Termination of wmi_events as a property of its runs: once the wait has
\* elapsed or the parent context is cancelled, the worker ends.
AlwaysTerminates == (wmi.ctx # "live") ~> Terminated

\* C21: once the wait has elapsed or the parent context is cancelled, the
\* worker of wmi_events is never held up, whether the consumer still
\* receives or not: it has ended or it can take its next step (so that it
\* ends: the watcher destroyed, output_chan closed); and ProcessEvent never
\* waits: it queues the event, or drops it when all QueueSize slots are taken.
C21_WorkerEndsAfterContextDone ==
    /\ wmi.ctx # "live" => (Terminated \/ ENABLED Worker)
    /\ wmi.queue \in 0..QueueSize
    /\ wmi.watcher = "active" => ENABLED ProcessEvent
    /\ wmi.event = "dropped" <=> (wmi.event # "none" /\ wmi.seen = QueueSize)
====
